---------------------------- MODULE Spec2Model ----------------------------
(***************************************************************************)
(* Galaxy orchestrator (pkg/galaxy/galaxy.go) with the global            *)
(* configuration it reads (DotGalaxy).  One Galaxy instance, one thread:   *)
(* Inspect(), Plan() and Apply() are called by a caller one after the      *)
(* other; each runs step by step (one step per namespace inspection, per   *)
(* callback, per external applier call).  The directory tree and the       *)
(* external appliers are the environment of the program.                   *)
(***************************************************************************)
EXTENDS Naturals, Sequences, FiniteSets, TLC

VARIABLES
    Environments,   \* dotGalaxy.Spec.Environments: sequence of Environment
    Names,          \* dotGalaxy.Spec.Namespaces.Names: sequence of namespace names
    cfg,            \* *Config as its getters return it
    baseDir,        \* whether Spec.Namespaces.BaseDir is a directory (file system)
    tree,           \* namespace name -> whether BaseDir/<name> is a directory
    original,       \* Galaxy.original: env name -> sequence of contexts
    Modified,       \* Galaxy.Modified: env name -> sequence of contexts
    envOriginalNs,  \* Galaxy.envOriginalNs: env name -> (transformed ns -> original ns)
    pc,             \* where the single thread of control is
    op,             \* the method whose callback Loop runs: "Inspect" or "Plan"
    envs,           \* Loop: the slice ListEnvironments() returned when the pass began
    envIdx,         \* Loop: index of the outer range
    nsIdx,          \* Loop: index of the inner range
    ctx,            \* Loop: the Context of the current iteration
    err,            \* the err variable of the running method
    ret,            \* what the caller was last handed: [op, err]
    applyEnv,       \* Apply: envName
    todo,           \* Apply: keys of the ranged map not yet visited
    cur,            \* Apply: ns of the current iteration
    stage,          \* Apply: the statement about to run
    calls,          \* external applier calls made by the running/last Apply, in order
    passes,         \* number of Inspect()/Plan() calls made so far
    applies,        \* number of Apply() calls made so far
    changes         \* number of changes made to the directory tree so far

dotVars   == <<Environments, Names, cfg>>
fsVars    == <<baseDir, tree>>
dataVars  == <<original, Modified, envOriginalNs>>
loopVars  == <<op, envs, envIdx, nsIdx, ctx>>
applyVars == <<applyEnv, todo, cur, stage, calls>>
vars == <<Environments, Names, cfg, baseDir, tree, original, Modified,
          envOriginalNs, pc, op, envs, envIdx, nsIdx, ctx, err, ret,
          applyEnv, todo, cur, stage, calls, passes, applies, changes>>

(***************************************************************************)
(* Bounds of the model.                                                    *)
(***************************************************************************)
MaxPasses == 2
MaxApplies == 1
MaxChanges == 1

(***************************************************************************)
(* Values.                                                                 *)
(***************************************************************************)
Nil == "nil"

EmptyMap == [k \in {} |-> {}]

Put(m, k, v) == [x \in DOMAIN m \cup {k} |-> IF x = k THEN v ELSE m[x]]

\* m[k] of a Go map: the zero value (a nil map or slice) when k is no key
Lookup(m, k) == IF k \in DOMAIN m THEN m[k] ELSE EmptyMap

RECURSIVE SeqContains(_, _)
SeqContains(s, x) ==
    IF s = <<>> THEN FALSE
    ELSE IF Head(s) = x THEN TRUE ELSE SeqContains(Tail(s), x)

stringSliceContains(s, x) == SeqContains(s, x)

(***************************************************************************)
(* The environments a global spec may declare, and the specs the model     *)
(* starts from: one environment, two environments, the same name twice.    *)
(***************************************************************************)
EnvDev ==
    [Name |-> "dev", SkipOnNamespaces |-> {}, FileSuffixes |-> <<>>,
     Transform |-> [NamespaceSuffix |-> "-dev", ReleasePrefix |-> "d-"]]

EnvProd ==
    [Name |-> "prod", SkipOnNamespaces |-> {"app"}, FileSuffixes |-> <<"-prod">>,
     Transform |-> [NamespaceSuffix |-> "", ReleasePrefix |-> ""]]

EnvDevAgain ==
    [Name |-> "dev", SkipOnNamespaces |-> {"db"}, FileSuffixes |-> <<>>,
     Transform |-> [NamespaceSuffix |-> "", ReleasePrefix |-> ""]]

SpecChoices ==
    { <<EnvDev>>, <<EnvDev, EnvProd>>, <<EnvProd, EnvDev>>, <<EnvDev, EnvDevAgain>> }

NamesChoices == { <<"app", "db">> }

Extensions == {".yaml"}

RequestedChoices == { <<>>, <<"dev">>, <<"prod">>, <<"qa">>, <<"dev", "prod">> }

NamespaceFilterChoices == { <<>>, <<"app">> }

(***************************************************************************)
(* DotGalaxy.                                                              *)
(***************************************************************************)
ListNamespaces == Names

ListEnvironments == [i \in 1..Len(Environments) |-> Environments[i].Name]

RECURSIVE FirstNamed(_, _)
FirstNamed(s, name) ==
    IF s = <<>> THEN [env |-> Nil, err |-> "Environment is not found"]
    ELSE IF name = Head(s).Name THEN [env |-> Head(s), err |-> Nil]
    ELSE FirstNamed(Tail(s), name)

GetEnvironment(name) == FirstNamed(Environments, name)

GetNamespaceDir(name) ==
    IF ~stringSliceContains(Names, name) THEN "namespace informed does not exist"
    ELSE IF ~baseDir THEN "baseDir is not a directory"
    ELSE Nil

(***************************************************************************)
(* Config getters.                                                         *)
(***************************************************************************)
GetEnvironments == cfg.Environments

GetNamespaces == cfg.Namespaces

(***************************************************************************)
(* The directory tree: what BaseDir/<ns> lists when it is there.           *)
(***************************************************************************)
File(ns, release, suffix, ext) ==
    [ns |-> ns, release |-> release, suffix |-> suffix, ext |-> ext]

Listing(ns) ==
    << File(ns, "svc", "", ".yaml"), File(ns, "notes", "", ".txt"),
       File(ns, "job", "-prod", ".yaml") >>

(***************************************************************************)
(* Context and its FileInspector.                                          *)
(***************************************************************************)
NewContext == EmptyMap

RECURSIVE SelectFiles(_, _)
SelectFiles(files, exts) ==
    IF files = <<>> THEN <<>>
    ELSE IF Head(files).ext \in exts
         THEN <<Head(files)>> \o SelectFiles(Tail(files), exts)
         ELSE SelectFiles(Tail(files), exts)

InspectDirFails(ns) == ~tree[ns]

InspectDir(c, ns, exts) ==
    Put(c, ns, (IF ns \in DOMAIN c THEN c[ns] ELSE <<>>)
               \o SelectFiles(Listing(ns), exts))

(***************************************************************************)
(* Plan: ContextForEnvironment.                                            *)
(***************************************************************************)
InScope(env, namespaces, ns) ==
    /\ (namespaces = <<>> \/ stringSliceContains(namespaces, ns))
    /\ ns \notin env.SkipOnNamespaces

TransformedNs(env, ns) == ns \o env.Transform.NamespaceSuffix

RECURSIVE FilterAndRename(_, _)
FilterAndRename(env, files) ==
    IF files = <<>> THEN <<>>
    ELSE LET f == Head(files)
             keep == \/ env.FileSuffixes = <<>>
                     \/ stringSliceContains(env.FileSuffixes, f.suffix)
         IN  IF keep
             THEN << [f EXCEPT !.ns = TransformedNs(env, f.ns),
                               !.release = env.Transform.ReleasePrefix \o f.release] >>
                  \o FilterAndRename(env, Tail(files))
             ELSE FilterAndRename(env, Tail(files))

ContextForEnvironment(env, namespaces, c) ==
    LET kept == {ns \in DOMAIN c : InScope(env, namespaces, ns)}
        targets == {TransformedNs(env, ns) : ns \in kept}
        source(t) == CHOOSE ns \in kept : TransformedNs(env, ns) = t
        conflict == \E a, b \in kept : a # b /\ TransformedNs(env, a) = TransformedNs(env, b)
    IN  IF conflict
        THEN [ctx |-> EmptyMap, OriginalNs |-> EmptyMap, err |-> "namespace conflict"]
        ELSE [ctx |-> [t \in targets |-> FilterAndRename(env, c[source(t)])],
              OriginalNs |-> [t \in targets |-> source(t)],
              err |-> Nil]


(***************************************************************************)
(* Galaxy: construction.                                                   *)
(***************************************************************************)
ConfigChoices ==
    [Environments : RequestedChoices, Namespaces : NamespaceFilterChoices,
     SkipSecrets : BOOLEAN, DryRun : BOOLEAN]

NewGalaxy ==
    /\ original = EmptyMap
    /\ Modified = EmptyMap
    /\ envOriginalNs = EmptyMap

NoLoopFrame ==
    [op |-> Nil, envs |-> <<>>, envIdx |-> 0, nsIdx |-> 0, ctx |-> NewContext]

NoApplyFrame == [applyEnv |-> Nil, todo |-> {}, cur |-> Nil, stage |-> Nil]

Init ==
    /\ Environments \in SpecChoices
    /\ Names \in NamesChoices
    /\ cfg \in ConfigChoices
    /\ baseDir = TRUE
    /\ tree = [ns \in {"app", "db"} |-> TRUE]
    /\ NewGalaxy
    /\ pc = "idle"
    /\ op = NoLoopFrame.op
    /\ envs = NoLoopFrame.envs
    /\ envIdx = NoLoopFrame.envIdx
    /\ nsIdx = NoLoopFrame.nsIdx
    /\ ctx = NoLoopFrame.ctx
    /\ err = Nil
    /\ ret = [op |-> Nil, err |-> Nil]
    /\ applyEnv = NoApplyFrame.applyEnv
    /\ todo = NoApplyFrame.todo
    /\ cur = NoApplyFrame.cur
    /\ stage = NoApplyFrame.stage
    /\ calls = <<>>
    /\ passes = 0 /\ applies = 0 /\ changes = 0

(***************************************************************************)
(* Returning to the caller (the locals of the method are gone), and        *)
(* logger.Fatalf, which logs and ends the process.                         *)
(***************************************************************************)
Return(o, e) ==
    /\ pc' = "idle"
    /\ err' = e
    /\ ret' = [op |-> o, err |-> e]
    /\ op' = NoLoopFrame.op
    /\ envs' = NoLoopFrame.envs
    /\ envIdx' = NoLoopFrame.envIdx
    /\ nsIdx' = NoLoopFrame.nsIdx
    /\ ctx' = NoLoopFrame.ctx
    /\ applyEnv' = NoApplyFrame.applyEnv
    /\ todo' = NoApplyFrame.todo
    /\ cur' = NoApplyFrame.cur
    /\ stage' = NoApplyFrame.stage

Fatalf(e) ==
    /\ pc' = "exited"
    /\ err' = e
    /\ UNCHANGED <<ret, loopVars, applyEnv, todo, cur, stage>>

(***************************************************************************)
(* Galaxy.Loop.                                                            *)
(***************************************************************************)
IterationStart == IF ListNamespaces = <<>> THEN "fn" ELSE "ns"

LoopBegin(o) ==
    IF ListEnvironments = <<>>
    THEN Return(o, Nil)
    ELSE /\ op' = o
         /\ envs' = ListEnvironments
         /\ envIdx' = 1
         /\ ctx' = NewContext
         /\ nsIdx' = 1
         /\ pc' = IterationStart
         /\ err' = Nil
         /\ UNCHANGED <<ret, applyEnv, todo, cur, stage>>

LoopInspectNs ==
    /\ pc = "ns"
    /\ LET ns == ListNamespaces[nsIdx]
           dirErr == GetNamespaceDir(ns)
       IN  IF dirErr # Nil
           THEN Return(op, dirErr)
           ELSE IF InspectDirFails(ns)
           THEN Fatalf("directory not found")
           ELSE /\ ctx' = InspectDir(ctx, ns, Extensions)
                /\ IF nsIdx < Len(ListNamespaces)
                   THEN nsIdx' = nsIdx + 1 /\ pc' = "ns"
                   ELSE nsIdx' = nsIdx /\ pc' = "fn"
                /\ UNCHANGED <<err, ret, op, envs, envIdx, applyEnv, todo, cur, stage>>
    /\ UNCHANGED <<dotVars, fsVars, dataVars, calls, passes, applies, changes>>

(***************************************************************************)
(* The callbacks of Inspect() and Plan(): the data they leave and the      *)
(* error they return.                                                      *)
(***************************************************************************)
AppendTo_Overwrite(data, env, c) == Put(data, env, <<c>>)

AppendTo(data, env, c) ==
    Put(data, env, (IF env \in DOMAIN data THEN data[env] ELSE <<>>) \o <<c>>)

Stored(o, m, n, e) == [original |-> o, Modified |-> m, envOriginalNs |-> n, err |-> e]

Untouched(e) == Stored(original, Modified, envOriginalNs, e)

InspectFn_RequestedOnly(env, c) ==
    IF Len(GetEnvironments) > 0 /\ ~stringSliceContains(GetEnvironments, env)
    THEN Untouched(Nil)
    ELSE Stored(AppendTo(original, env, c), Modified, envOriginalNs, Nil)

InspectFn_AlsoPlans(env, c) ==
    Stored(AppendTo(original, env, c), AppendTo(Modified, env, c),
           Put(envOriginalNs, env, [ns \in DOMAIN c |-> ns]), Nil)

InspectFn(env, c) == Stored(AppendTo(original, env, c), Modified, envOriginalNs, Nil)

Skipped_Never(envName) == FALSE

Skipped_WhenRequested(envName) ==
    Len(GetEnvironments) > 0 /\ stringSliceContains(GetEnvironments, envName)

Skipped(envName) ==
    Len(GetEnvironments) > 0 /\ ~stringSliceContains(GetEnvironments, envName)

PlanFn_EmptyNotRecorded(envName, c) ==
    IF Skipped(envName) THEN Untouched(Nil)
    ELSE LET got == GetEnvironment(envName)
         IN  IF got.err # Nil THEN Untouched(got.err)
             ELSE LET plan == ContextForEnvironment(got.env, GetNamespaces, c)
                  IN  IF plan.err # Nil THEN Untouched(plan.err)
                      ELSE IF plan.OriginalNs = EmptyMap THEN Untouched(Nil)
                      ELSE Stored(original,
                                  AppendTo(Modified, envName, plan.ctx),
                                  Put(envOriginalNs, envName, plan.OriginalNs),
                                  Nil)

PlanFn_MapNotSaved(envName, c) ==
    IF Skipped(envName) THEN Untouched(Nil)
    ELSE LET got == GetEnvironment(envName)
         IN  IF got.err # Nil THEN Untouched(got.err)
             ELSE LET plan == ContextForEnvironment(got.env, GetNamespaces, c)
                  IN  IF plan.err # Nil THEN Untouched(plan.err)
                      ELSE Stored(original,
                                  AppendTo(Modified, envName, plan.ctx),
                                  envOriginalNs,
                                  Nil)

PlanFn(envName, c) ==
    IF Skipped(envName) THEN Untouched(Nil)
    ELSE LET got == GetEnvironment(envName)
         IN  IF got.err # Nil THEN Untouched(got.err)
             ELSE LET plan == ContextForEnvironment(got.env, GetNamespaces, c)
                  IN  IF plan.err # Nil THEN Untouched(plan.err)
                      ELSE Stored(original,
                                  AppendTo(Modified, envName, plan.ctx),
                                  Put(envOriginalNs, envName, plan.OriginalNs),
                                  Nil)

LoopCallback_ContextReused ==
    /\ pc = "fn"
    /\ LET env == envs[envIdx]
           r == IF op = "Inspect" THEN InspectFn(env, ctx) ELSE PlanFn(env, ctx)
       IN  /\ original' = r.original
           /\ Modified' = r.Modified
           /\ envOriginalNs' = r.envOriginalNs
           /\ IF r.err # Nil
              THEN Return(op, r.err)
              ELSE IF envIdx < Len(envs)
              THEN /\ envIdx' = envIdx + 1
                   /\ ctx' = ctx
                   /\ nsIdx' = 1
                   /\ pc' = IterationStart
                   /\ UNCHANGED <<err, ret, op, envs, applyEnv, todo, cur, stage>>
              ELSE Return(op, Nil)
    /\ UNCHANGED <<dotVars, fsVars, calls, passes, applies, changes>>

LoopCallback ==
    /\ pc = "fn"
    /\ LET env == envs[envIdx]
           r == IF op = "Inspect" THEN InspectFn(env, ctx) ELSE PlanFn(env, ctx)
       IN  /\ original' = r.original
           /\ Modified' = r.Modified
           /\ envOriginalNs' = r.envOriginalNs
           /\ IF r.err # Nil
              THEN Return(op, r.err)
              ELSE IF envIdx < Len(envs)
              THEN /\ envIdx' = envIdx + 1
                   /\ ctx' = NewContext
                   /\ nsIdx' = 1
                   /\ pc' = IterationStart
                   /\ UNCHANGED <<err, ret, op, envs, applyEnv, todo, cur, stage>>
              ELSE Return(op, Nil)
    /\ UNCHANGED <<dotVars, fsVars, calls, passes, applies, changes>>

(***************************************************************************)
(* Galaxy.Inspect and Galaxy.Plan, as the caller starts them.              *)
(***************************************************************************)
Inspect_NoBaseDirCheck ==
    /\ pc = "idle"
    /\ passes < MaxPasses
    /\ passes' = passes + 1
    /\ calls' = <<>>
    /\ LoopBegin("Inspect")
    /\ UNCHANGED <<dotVars, fsVars, dataVars, applies, changes>>

Inspect ==
    /\ pc = "idle"
    /\ passes < MaxPasses
    /\ passes' = passes + 1
    /\ calls' = <<>>
    /\ IF ~baseDir
       THEN Return("Inspect", "base directory not found")
       ELSE LoopBegin("Inspect")
    /\ UNCHANGED <<dotVars, fsVars, dataVars, applies, changes>>

Plan ==
    /\ pc = "idle"
    /\ passes < MaxPasses
    /\ passes' = passes + 1
    /\ calls' = <<>>
    /\ LoopBegin("Plan")
    /\ UNCHANGED <<dotVars, fsVars, dataVars, applies, changes>>

(***************************************************************************)
(* Galaxy.probeSingleEnv.                                                  *)
(***************************************************************************)
probeSingleEnv_NoPlanCheck ==
    IF Len(GetEnvironments) # 1
    THEN [envName |-> "", err |-> "a single environment must be informed"]
    ELSE [envName |-> GetEnvironments[1], err |-> Nil]

probeSingleEnv_FirstOfMany ==
    IF Len(GetEnvironments) = 0
    THEN [envName |-> "", err |-> "a single environment must be informed"]
    ELSE LET envName == GetEnvironments[1]
         IN  IF envName \notin DOMAIN Modified
             THEN [envName |-> "", err |-> "environment is not found on planned data"]
             ELSE IF envName \notin DOMAIN envOriginalNs
             THEN [envName |-> "",
                   err |-> "environment is not found on original namespace names map"]
             ELSE [envName |-> envName, err |-> Nil]

probeSingleEnv ==
    IF Len(GetEnvironments) # 1
    THEN [envName |-> "", err |-> "a single environment must be informed"]
    ELSE LET envName == GetEnvironments[1]
         IN  IF envName \notin DOMAIN Modified
             THEN [envName |-> "", err |-> "environment is not found on planned data"]
             ELSE IF envName \notin DOMAIN envOriginalNs
             THEN [envName |-> "",
                   err |-> "environment is not found on original namespace names map"]
             ELSE [envName |-> envName, err |-> Nil]

(***************************************************************************)
(* Galaxy.Apply: the entry, the range over envOriginalNs[envName] (a Go    *)
(* map: any key not yet visited comes next), and the four applier calls,   *)
(* each of which the applier answers with nil or with an error.            *)
(***************************************************************************)
FirstStage_ReleasesFirst == "l.Bootstrap"

FirstStage == IF ~cfg.SkipSecrets THEN "v.Bootstrap" ELSE "l.Bootstrap"

Apply ==
    /\ pc = "idle"
    /\ applies < MaxApplies
    /\ applies' = applies + 1
    /\ calls' = <<>>
    /\ LET probe == probeSingleEnv
           got == GetEnvironment(probe.envName)
       IN  IF probe.err # Nil
           THEN Return("Apply", probe.err)
           ELSE IF got.err # Nil
           THEN Return("Apply", got.err)
           ELSE /\ applyEnv' = probe.envName
                /\ todo' = DOMAIN Lookup(envOriginalNs, probe.envName)
                /\ cur' = Nil
                /\ stage' = "range"
                /\ pc' = "apply"
                /\ err' = Nil
                /\ UNCHANGED <<ret, loopVars>>
    /\ UNCHANGED <<dotVars, fsVars, dataVars, passes, changes>>

ApplyRange_ConsumesPlan ==
    /\ pc = "apply"
    /\ stage = "range"
    /\ IF todo = {}
       THEN /\ Return("Apply", Nil)
            /\ Modified' = [e \in DOMAIN Modified \ {applyEnv} |-> Modified[e]]
            /\ envOriginalNs' =
                  [e \in DOMAIN envOriginalNs \ {applyEnv} |-> envOriginalNs[e]]
            /\ UNCHANGED original
       ELSE /\ \E ns \in todo :
                 /\ cur' = ns
                 /\ todo' = todo \ {ns}
            /\ stage' = FirstStage
            /\ UNCHANGED <<pc, err, ret, loopVars, applyEnv, dataVars>>
    /\ UNCHANGED <<dotVars, fsVars, calls, passes, applies, changes>>

ApplyRange ==
    /\ pc = "apply"
    /\ stage = "range"
    /\ IF todo = {}
       THEN Return("Apply", Nil)
       ELSE /\ \E ns \in todo :
                 /\ cur' = ns
                 /\ todo' = todo \ {ns}
            /\ stage' = FirstStage
            /\ UNCHANGED <<pc, err, ret, loopVars, applyEnv>>
    /\ UNCHANGED <<dotVars, fsVars, dataVars, calls, passes, applies, changes>>

CallOf(applier, method, originalNs, result) ==
    [applier |-> applier, method |-> method, ns |-> cur, originalNs |-> originalNs,
     dryRun |-> cfg.DryRun, result |-> result]

Answers(applier, method) == {Nil, applier \o "." \o method \o " failed"}

ApplierCall_ErrorIgnored(applier, method, originalNs, next) ==
    /\ \E result \in Answers(applier, method) :
          /\ calls' = Append(calls, CallOf(applier, method, originalNs, result))
          /\ stage' = next
          /\ err' = result
          /\ UNCHANGED <<pc, ret, loopVars, applyEnv, todo, cur>>
    /\ UNCHANGED <<dotVars, fsVars, dataVars, passes, applies, changes>>

ApplierCall(applier, method, originalNs, next) ==
    /\ \E result \in Answers(applier, method) :
          /\ calls' = Append(calls, CallOf(applier, method, originalNs, result))
          /\ IF result # Nil
             THEN Return("Apply", result)
             ELSE /\ stage' = next
                  /\ err' = Nil
                  /\ UNCHANGED <<pc, ret, loopVars, applyEnv, todo, cur>>
    /\ UNCHANGED <<dotVars, fsVars, dataVars, passes, applies, changes>>

NoArg == "-"

VaultBootstrap ==
    /\ pc = "apply"
    /\ stage = "v.Bootstrap"
    /\ ApplierCall("v", "Bootstrap", NoArg, "v.Apply")

VaultApply ==
    /\ pc = "apply"
    /\ stage = "v.Apply"
    /\ ApplierCall("v", "Apply", NoArg, "l.Bootstrap")

LandscaperBootstrap_TransformedName ==
    /\ pc = "apply"
    /\ stage = "l.Bootstrap"
    /\ ApplierCall("l", "Bootstrap", cur, "l.Apply")

LandscaperBootstrap ==
    /\ pc = "apply"
    /\ stage = "l.Bootstrap"
    /\ ApplierCall("l", "Bootstrap", Lookup(envOriginalNs, applyEnv)[cur], "l.Apply")

LandscaperApply ==
    /\ pc = "apply"
    /\ stage = "l.Apply"
    /\ ApplierCall("l", "Apply", NoArg, "range")

(***************************************************************************)
(* The directory tree changes under the program: a namespace directory is  *)
(* removed or restored, BaseDir is removed or restored.  The              *)
(* program reads the tree when Inspect() begins and at each namespace      *)
(* inspection; a change at any other moment shows at the next of these.    *)
(***************************************************************************)
TreeChange ==
    /\ pc \in {"idle", "ns"}
    /\ pc = "idle" => passes < MaxPasses
    /\ changes < MaxChanges
    /\ changes' = changes + 1
    /\ \/ /\ baseDir' = ~baseDir
          /\ UNCHANGED tree
       \/ /\ \E ns \in DOMAIN tree : tree' = [tree EXCEPT ![ns] = ~tree[ns]]
          /\ UNCHANGED baseDir
    /\ UNCHANGED <<dotVars, dataVars, pc, loopVars, err, ret, applyVars,
                   passes, applies>>

Next ==
    \/ Inspect
    \/ Plan
    \/ LoopInspectNs
    \/ LoopCallback
    \/ Apply
    \/ ApplyRange
    \/ VaultBootstrap
    \/ VaultApply
    \/ LandscaperBootstrap
    \/ LandscaperApply
    \/ TreeChange

Spec == Init /\ [][Next]_vars


(***************************************************************************)
(* Vocabulary of the properties.                                           *)
(***************************************************************************)
DeclaredNames == {Environments[i].Name : i \in 1..Len(Environments)}

RequestedNames == {GetEnvironments[i] : i \in 1..Len(GetEnvironments)}

NoDuplicateNames ==
    \A i, j \in 1..Len(Environments) :
        Environments[i].Name = Environments[j].Name => i = j

CallKind(c) == c.applier \o "." \o c.method

SecretCalls == <<"v.Bootstrap", "v.Apply">>

ReleaseCalls == <<"l.Bootstrap", "l.Apply">>

CallsFor(ns) == SelectSeq(calls, LAMBDA c : c.ns = ns)

CalledNamespaces == {calls[i].ns : i \in 1..Len(calls)}

Received(ns, kind) ==
    Cardinality({i \in 1..Len(calls) : calls[i].ns = ns /\ CallKind(calls[i]) = kind})

InOrder(expected) ==
    \A ns \in CalledNamespaces :
        LET s == CallsFor(ns)
        IN  /\ Len(s) <= Len(expected)
            /\ \A i \in 1..Len(s) :
                  /\ CallKind(s[i]) = expected[i]
                  /\ i < Len(s) => s[i].result = Nil

NotPlannedErrors ==
    {"environment is not found on planned data",
     "environment is not found on original namespace names map"}

ApplyReturned == pc = "idle" /\ ret.op = "Apply"

(***************************************************************************)
(* C1: during Apply(), the calls made for one namespace are, in this       *)
(* order, secret handler Bootstrap, secret handler Apply, release applier  *)
(* Bootstrap, release applier Apply, each made only after the one before   *)
(* it returned without error; with SkipSecrets no secret-handler call is   *)
(* made and the calls are release applier Bootstrap, then Apply.  Every    *)
(* namespace called is a key of the environment's original-namespace map.  *)
(***************************************************************************)
C1_SecretsBeforeReleases ==
    /\ InOrder(IF cfg.SkipSecrets THEN ReleaseCalls ELSE SecretCalls \o ReleaseCalls)
    /\ cfg.SkipSecrets => \A i \in 1..Len(calls) : calls[i].applier # "v"
    /\ calls # <<>> =>
          CalledNamespaces \subseteq DOMAIN Lookup(envOriginalNs, GetEnvironments[1])

C1_Witness ==
    /\ ~cfg.SkipSecrets
    /\ Len(calls) = 8
    /\ calls[8].result = Nil
    /\ Cardinality(CalledNamespaces) = 2

(***************************************************************************)
(* C2: an Apply() whose single requested environment has no entry in       *)
(* Modified or in the original-namespace map returns a not-planned error   *)
(* and calls no applier; Apply() is in its loop, or has called an applier, *)
(* only for an environment with an entry in both; on an orchestrator with  *)
(* nothing planned Apply() fails.                                          *)
(***************************************************************************)
C2_NotPlannedFails ==
    /\ (/\ ApplyReturned
        /\ Len(GetEnvironments) = 1
        /\ \/ GetEnvironments[1] \notin DOMAIN Modified
           \/ GetEnvironments[1] \notin DOMAIN envOriginalNs)
       => (ret.err \in NotPlannedErrors /\ calls = <<>>)
    /\ (pc = "apply" \/ calls # <<>>)
       => (/\ Len(GetEnvironments) = 1
           /\ GetEnvironments[1] \in DOMAIN Modified
           /\ GetEnvironments[1] \in DOMAIN envOriginalNs)
    /\ (ApplyReturned /\ Modified = EmptyMap) => ret.err # Nil

C2_Witness ==
    /\ ApplyReturned
    /\ ret.err = "environment is not found on planned data"
    /\ passes = 1 /\ changes = 0 /\ original = EmptyMap
    /\ calls = <<>>

(***************************************************************************)
(* C3: an Apply() with zero or with two or more requested environments     *)
(* returns the configuration error and calls no applier, whatever has been *)
(* planned; Apply() never enters its loop then.                            *)
(***************************************************************************)
C3_SingleEnvironmentOnly ==
    /\ (ret.op = "Apply" /\ Len(GetEnvironments) # 1)
       => (ret.err = "a single environment must be informed" /\ calls = <<>>)
    /\ pc = "apply" => Len(GetEnvironments) = 1

C3_Witness ==
    /\ ApplyReturned
    /\ ret.err = "a single environment must be informed"
    /\ Len(GetEnvironments) = 2
    /\ RequestedNames \subseteq DOMAIN Modified
    /\ RequestedNames \subseteq DOMAIN envOriginalNs

(***************************************************************************)
(* C4: an applier call that returns an error is the last call Apply()      *)
(* makes (none for the same namespace, none for a remaining one, none to   *)
(* undo what earlier namespaces received), and Apply() returns that error. *)
(***************************************************************************)
C4_ErrorAborts ==
    \A i \in 1..Len(calls) :
        calls[i].result # Nil =>
            /\ i = Len(calls)
            /\ pc = "idle"
            /\ ret = [op |-> "Apply", err |-> calls[i].result]

C4_Witness ==
    /\ Len(calls) >= 5
    /\ calls[Len(calls)].result # Nil
    /\ calls[Len(calls)].ns # calls[1].ns
    /\ ApplyReturned

(***************************************************************************)
(* C5, as amended: in an Apply() that returned without error, every        *)
(* transformed namespace of the environment's original-namespace map       *)
(* received each call Apply() makes per namespace exactly once (the two    *)
(* secret-handler calls unless SkipSecrets, which makes them zero times,   *)
(* and the two release-applier calls), no other namespace received a call, *)
(* and the release applier's Bootstrap was given the original namespace    *)
(* the map holds for the transformed one.                                  *)
(***************************************************************************)
C5_OncePerNamespace ==
    (ApplyReturned /\ ret.err = Nil) =>
        LET m == envOriginalNs[GetEnvironments[1]]
        IN  /\ CalledNamespaces \subseteq DOMAIN m
            /\ \A ns \in DOMAIN m :
                  /\ \A k \in 1..2 : Received(ns, ReleaseCalls[k]) = 1
                  /\ \A k \in 1..2 :
                        Received(ns, SecretCalls[k]) = IF cfg.SkipSecrets THEN 0 ELSE 1
            /\ \A i \in 1..Len(calls) :
                  CallKind(calls[i]) = "l.Bootstrap" => calls[i].originalNs = m[calls[i].ns]

C5_Witness ==
    /\ ApplyReturned /\ ret.err = Nil
    /\ Len(calls) = 4
    /\ cfg.SkipSecrets
    /\ \E i \in 1..Len(calls) : calls[i].originalNs \notin {NoArg, calls[i].ns}

(***************************************************************************)
(* C5 as it was stated: in an Apply() that returned without error every    *)
(* namespace of the map received all four calls exactly once.              *)
(***************************************************************************)
C5_Original ==
    (ApplyReturned /\ ret.err = Nil) =>
        \A ns \in DOMAIN envOriginalNs[GetEnvironments[1]] :
            \A k \in 1..4 : Received(ns, (SecretCalls \o ReleaseCalls)[k]) = 1


(***************************************************************************)
(* C6: with a non-empty requested list, Modified and the original-         *)
(* namespace map hold entries only for declared environments that are in   *)
(* the list; the callback of a declared environment that is not in the     *)
(* list stores nothing and returns no error (the pass goes on).  With an   *)
(* empty list, a Plan() that returned without error left an entry in both  *)
(* for every declared environment.                                         *)
(***************************************************************************)
C6_Stored ==
    /\ Len(GetEnvironments) > 0 =>
          /\ DOMAIN Modified \subseteq DeclaredNames \cap RequestedNames
          /\ DOMAIN envOriginalNs \subseteq DeclaredNames \cap RequestedNames
    /\ (Len(GetEnvironments) = 0 /\ ret = [op |-> "Plan", err |-> Nil]) =>
          /\ DOMAIN Modified = DeclaredNames
          /\ DOMAIN envOriginalNs = DeclaredNames

C6_SkipStep ==
    (pc = "fn" /\ op = "Plan" /\ envs[envIdx] \notin RequestedNames
     /\ Len(GetEnvironments) > 0)
    => /\ UNCHANGED dataVars
       /\ ~(pc' = "idle" /\ ret'.err # Nil)

C6_RequestedOnly == []C6_Stored /\ [][C6_SkipStep]_vars

C6_Witness ==
    /\ Len(GetEnvironments) > 0
    /\ pc = "idle" /\ ret = [op |-> "Plan", err |-> Nil]
    /\ DOMAIN Modified # {}
    /\ DeclaredNames \ DOMAIN Modified # {}

(***************************************************************************)
(* C7, as amended: a Plan() callback that plans, without error, an         *)
(* environment that already has its entries (a second Plan() on the same   *)
(* orchestrator) keeps the keys of Modified and of the original-namespace  *)
(* map and every other environment's entries, keeps in place the contexts  *)
(* Modified[env] already held and appends one more context to them:        *)
(* Modified[env] grows by one context with every Plan(), and a later       *)
(* Apply() is handed the longer list.                                      *)
(***************************************************************************)
C7_ReplanStep ==
    LET e == envs[envIdx]
        n == Len(Modified[e])
    IN  (/\ pc = "fn" /\ op = "Plan" /\ ~Skipped(e) /\ e \in DOMAIN Modified
         /\ ~(pc' = "idle" /\ ret'.err # Nil))
        => /\ DOMAIN Modified' = DOMAIN Modified
           /\ DOMAIN envOriginalNs' = DOMAIN envOriginalNs
           /\ \A k \in DOMAIN Modified \ {e} :
                 Modified'[k] = Modified[k] /\ envOriginalNs'[k] = envOriginalNs[k]
           /\ Len(Modified'[e]) = n + 1
           /\ SubSeq(Modified'[e], 1, n) = Modified[e]

C8_WrittenOnce ==
    passes = 1 => \A e \in DOMAIN Modified : Len(Modified[e]) = 1

(***************************************************************************)
(* C9: when a namespace inspection or the planning of an environment fails *)
(* in an Inspect()/Plan() pass, the pass is over and the caller holds that *)
(* error.                                                                  *)
(***************************************************************************)
C9_FirstErrorReturned ==
    err # Nil => (pc = "idle" /\ ret.err = err)

(***************************************************************************)
(* C10: a Plan() whose requested list names an environment the global spec *)
(* does not declare returns an error.                                      *)
(***************************************************************************)
C10_UnknownEnvironmentFails ==
    (pc = "idle" /\ ret.op = "Plan" /\ RequestedNames \ DeclaredNames # {})
    => ret.err # Nil

(***************************************************************************)
(* C11: an environment planned with no applicable namespace is planned     *)
(* all the same.  A Plan() that returned without error left an entry in    *)
(* Modified and in the original-namespace map for every declared           *)
(* environment it did not skip, also when every declared namespace is out  *)
(* of that environment's scope (the map of the entry is then empty); and   *)
(* an Apply() for a single requested environment whose entry holds an      *)
(* empty original-namespace map returns without error and calls no         *)
(* applier.                                                                *)
(***************************************************************************)
NoApplicableNamespace(e) ==
    /\ GetEnvironment(e).err = Nil
    /\ \A i \in 1..Len(Names) :
          ~InScope(GetEnvironment(e).env, GetNamespaces, Names[i])

C11_NothingToApply ==
    /\ (pc = "idle" /\ ret = [op |-> "Plan", err |-> Nil]) =>
          \A e \in DeclaredNames :
              ~Skipped(e) =>
                  /\ e \in DOMAIN Modified
                  /\ e \in DOMAIN envOriginalNs
                  /\ NoApplicableNamespace(e) => envOriginalNs[e] = EmptyMap
    /\ (/\ ApplyReturned
        /\ Len(GetEnvironments) = 1
        /\ GetEnvironments[1] \in DOMAIN Modified
        /\ Lookup(envOriginalNs, GetEnvironments[1]) = EmptyMap
        /\ GetEnvironments[1] \in DOMAIN envOriginalNs)
       => (ret.err = Nil /\ calls = <<>>)

C11_Witness ==
    /\ ApplyReturned /\ ret.err = Nil /\ calls = <<>>
    /\ Len(GetEnvironments) = 1
    /\ NoApplicableNamespace(GetEnvironments[1])
    /\ GetEnvironments[1] \in DOMAIN envOriginalNs
    /\ envOriginalNs[GetEnvironments[1]] = EmptyMap
    /\ Modified[GetEnvironments[1]] = <<EmptyMap>>

(***************************************************************************)
(* C12: an Inspect() called while the namespaces base directory is not a   *)
(* directory returns an error at once: the caller holds the error in the   *)
(* same step (Loop is not entered, no namespace directory is inspected),   *)
(* and the original data, Modified and the original-namespace map are what *)
(* they were.                                                              *)
(***************************************************************************)
C12_Step ==
    (Inspect /\ ~baseDir)
    => /\ pc' = "idle"
       /\ ret' = [op |-> "Inspect", err |-> "base directory not found"]
       /\ ctx' = NewContext /\ nsIdx' = 0
       /\ UNCHANGED dataVars

C12_InspectFailsFast == [][C12_Step]_vars

C12_Witness ==
    /\ pc = "idle"
    /\ ret = [op |-> "Inspect", err |-> "base directory not found"]
    /\ ~baseDir
    /\ Modified # EmptyMap
    /\ original = EmptyMap

(***************************************************************************)
(* C13: every environment iteration of a pass works on its own Context.    *)
(* While the iteration inspects its k-th namespace the context holds the   *)
(* records of the k-1 namespaces this iteration has inspected and nothing  *)
(* else; the context handed to the callback holds exactly the records of   *)
(* every declared namespace, untransformed, however many iterations and    *)
(* passes came before; and no step changes or removes a context that       *)
(* original or Modified already holds.                                     *)
(***************************************************************************)
Discovered(k) ==
    [ns \in {Names[i] : i \in 1..k} |-> SelectFiles(Listing(ns), Extensions)]

KeepsStored(old, new) ==
    \A e \in DOMAIN old :
        /\ e \in DOMAIN new
        /\ Len(new[e]) >= Len(old[e])
        /\ SubSeq(new[e], 1, Len(old[e])) = old[e]

C13_OwnContext ==
    /\ pc = "ns" => ctx = Discovered(nsIdx - 1)
    /\ pc = "fn" => ctx = Discovered(Len(Names))
    /\ \A e \in DOMAIN original :
          \A i \in 1..Len(original[e]) : original[e][i] = Discovered(Len(Names))

C13_StoredStep == KeepsStored(original, original') /\ KeepsStored(Modified, Modified')

C13_FreshContext == []C13_OwnContext /\ [][C13_StoredStep]_vars

C13_Witness ==
    /\ pc = "fn" /\ op = "Plan" /\ envIdx = 2
    /\ original # EmptyMap
    /\ \E e \in DOMAIN Modified : Modified[e][1] # Discovered(Len(Names))
    /\ ctx = Discovered(Len(Names))

(***************************************************************************)
(* C14: Apply() only reads what was planned.  The step that enters         *)
(* Apply() and every step taken inside it (the probe, the lookup of the    *)
(* environment, the range, each applier call, the return with or without   *)
(* an error) leave the original data, Modified and the original-namespace  *)
(* map with the keys and the values they had.                              *)
(***************************************************************************)
InApply == pc = "apply" \/ (pc = "idle" /\ applies' = applies + 1)

C14_Step == InApply => UNCHANGED <<original, Modified, envOriginalNs>>

C14_ApplyReadsOnly == [][C14_Step]_vars

C14_Witness ==
    /\ ApplyReturned
    /\ Len(calls) >= 4
    /\ ret.err = calls[Len(calls)].result
    /\ Len(GetEnvironments) = 1
    /\ GetEnvironments[1] \in DOMAIN Modified
    /\ DOMAIN envOriginalNs[GetEnvironments[1]] = CalledNamespaces
    /\ original # EmptyMap

(***************************************************************************)
(* C15: an environment name that the global spec declares twice is a       *)
(* configuration validation failure: it is never planned (no entry in      *)
(* Modified or in the original-namespace map), resolving it fails, and a   *)
(* Plan() that was to plan it returns an error.                            *)
(***************************************************************************)
Declarations(n) == {i \in 1..Len(Environments) : Environments[i].Name = n}

DuplicatedNames == {n \in DeclaredNames : Cardinality(Declarations(n)) > 1}

C15_DuplicateNamesRejected ==
    \A n \in DuplicatedNames :
        /\ n \notin DOMAIN Modified
        /\ n \notin DOMAIN envOriginalNs
        /\ (pc = "idle" /\ ret.op = "Plan" /\ ~Skipped(n)) =>
              (ret.err # Nil /\ GetEnvironment(n).err # Nil)

(***************************************************************************)
(* C16: Inspect() visits the declared environments in declaration order,   *)
(* whatever the requested environments and namespaces are.  Each callback  *)
(* of the pass appends one context to original[env] of the environment of  *)
(* its iteration and touches no other entry; that context holds the        *)
(* records of every declared namespace, inspected in declaration order     *)
(* before the callback ran; the pass goes on to the next declaration and   *)
(* returns nil after the last.  After one Inspect() that returned nil on a *)
(* new orchestrator, original[env] holds one context per declaration of    *)
(* env, for every declared environment and for no other name.              *)
(***************************************************************************)
StoredFor(data, e) == IF e \in DOMAIN data THEN data[e] ELSE <<>>

C16_Order ==
    /\ (pc \in {"ns", "fn"} /\ op = "Inspect") =>
          /\ envs = ListEnvironments
          /\ envIdx \in 1..Len(envs)
          /\ DOMAIN ctx = {Names[i] : i \in 1..(IF pc = "ns" THEN nsIdx - 1 ELSE Len(Names))}
          /\ passes = 1 =>
                \A e \in DeclaredNames :
                    Len(StoredFor(original, e))
                        = Cardinality({i \in Declarations(e) : i < envIdx})
    /\ (pc = "idle" /\ ret = [op |-> "Inspect", err |-> Nil] /\ passes = 1) =>
          /\ DOMAIN original = DeclaredNames
          /\ \A e \in DeclaredNames :
                /\ Len(original[e]) = Cardinality(Declarations(e))
                /\ \A i \in 1..Len(original[e]) :
                      original[e][i] = Discovered(Len(Names))

C16_CallbackStep ==
    (pc = "fn" /\ op = "Inspect") =>
        LET e == envs[envIdx]
            n == Len(StoredFor(original, e))
        IN  /\ DOMAIN original' = DOMAIN original \cup {e}
            /\ \A k \in DOMAIN original \ {e} : original'[k] = original[k]
            /\ Len(original'[e]) = n + 1
            /\ SubSeq(original'[e], 1, n) = StoredFor(original, e)
            /\ original'[e][n + 1] = ctx
            /\ IF envIdx < Len(envs)
               THEN pc' # "idle" /\ envIdx' = envIdx + 1 /\ envs' = envs
               ELSE pc' = "idle" /\ ret' = [op |-> "Inspect", err |-> Nil]

C16_InspectEveryEnvironment == []C16_Order /\ [][C16_CallbackStep]_vars

C16_Witness ==
    /\ pc = "idle" /\ ret = [op |-> "Inspect", err |-> Nil] /\ passes = 1
    /\ GetEnvironments = <<"qa">>
    /\ GetNamespaces = <<"app">>
    /\ DOMAIN original = {"dev", "prod"}
    /\ Len(original["prod"]) = 1
    /\ DOMAIN original["prod"][1] = {"app", "db"}

(***************************************************************************)
(* C17: inspecting and planning do not touch each other's data.  No step   *)
(* of an Inspect() changes Modified or the original-namespace map, no step *)
(* of a Plan() changes the original data, and no step of an Apply()        *)
(* depends on it: whatever original holds (nothing, or what an Inspect()   *)
(* before or after the Plan() left), every context in Modified[env] and    *)
(* the map envOriginalNs[env] are the plan of env for the declared         *)
(* namespaces under the run configuration, the namespaces Apply() calls    *)
(* are keys of that map, and an Apply() that returned nil called all of    *)
(* them.                                                                   *)
(***************************************************************************)
ExpectedPlan(e) ==
    ContextForEnvironment(GetEnvironment(e).env, GetNamespaces, Discovered(Len(Names)))

InInspect == Inspect \/ (pc \in {"ns", "fn"} /\ op = "Inspect")

InPlan == Plan \/ (pc \in {"ns", "fn"} /\ op = "Plan")

C17_FrameStep ==
    /\ InInspect => UNCHANGED <<Modified, envOriginalNs>>
    /\ InPlan => UNCHANGED original

C17_PlannedData ==
    /\ \A e \in DOMAIN Modified \cup DOMAIN envOriginalNs :
          LET plan == ExpectedPlan(e)
          IN  /\ \A i \in 1..Len(StoredFor(Modified, e)) : Modified[e][i] = plan.ctx
              /\ e \in DOMAIN envOriginalNs => envOriginalNs[e] = plan.OriginalNs
    /\ calls # <<>> =>
          LET expected == DOMAIN ExpectedPlan(GetEnvironments[1]).OriginalNs
          IN  /\ CalledNamespaces \subseteq expected
              /\ (ApplyReturned /\ ret.err = Nil) => CalledNamespaces = expected
    /\ (ApplyReturned /\ ret.err = Nil /\ calls = <<>>) =>
          ExpectedPlan(GetEnvironments[1]).OriginalNs = EmptyMap

C17_InspectIndependent == []C17_PlannedData /\ [][C17_FrameStep]_vars

C17_Witness ==
    /\ ApplyReturned /\ ret.err = Nil
    /\ Cardinality(CalledNamespaces) = 2
    /\ original # EmptyMap
    /\ Len(Modified[GetEnvironments[1]]) = 1
    /\ Modified[GetEnvironments[1]][1] # original[GetEnvironments[1]][1]

(***************************************************************************)
(* C18: Modified and the original-namespace map have the same environment  *)
(* keys in every reachable state, passes and Apply() calls that failed     *)
(* included (the Plan callback writes both entries of an environment or    *)
(* neither), so Apply() never returns the error of probeSingleEnv's second *)
(* check.                                                                  *)
(***************************************************************************)
C18_SameKeys ==
    /\ DOMAIN Modified = DOMAIN envOriginalNs
    /\ probeSingleEnv.err # "environment is not found on original namespace names map"
    /\ ret.err # "environment is not found on original namespace names map"

C18_Witness ==
    /\ ApplyReturned
    /\ ret.err # Nil
    /\ GetEnvironments = <<>>
    /\ DOMAIN envOriginalNs # {}
    /\ DOMAIN envOriginalNs # DeclaredNames
    /\ baseDir = FALSE

(***************************************************************************)
(* C19: every environment key of Modified and of the original-namespace    *)
(* map is a name the global spec declares and, when the requested list is  *)
(* not empty, a name of that list; hence whenever probeSingleEnv succeeds  *)
(* the lookup of the environment that follows it in Apply() succeeds:      *)
(* Apply() is in its loop only for an environment GetEnvironment resolves, *)
(* and never returns GetEnvironment's error.                               *)
(***************************************************************************)
StoredKeys == DOMAIN Modified \cup DOMAIN envOriginalNs

C19_DeclaredKeys ==
    /\ StoredKeys \subseteq DeclaredNames
    /\ GetEnvironments # <<>> => StoredKeys \subseteq RequestedNames
    /\ \A e \in StoredKeys : GetEnvironment(e).err = Nil
    /\ probeSingleEnv.err = Nil => GetEnvironment(probeSingleEnv.envName).err = Nil
    /\ pc = "apply" => (applyEnv \in StoredKeys /\ GetEnvironment(applyEnv).err = Nil)
    /\ ret.op = "Apply" => ret.err # "Environment is not found"

C19_Witness ==
    /\ pc = "apply"
    /\ applyEnv = "prod"
    /\ Environments[1].Name # "prod"
    /\ StoredKeys = {"prod"}
    /\ todo = {}
    /\ calls # <<>>

=============================================================================
